---- MODULE Spec2Model ----
(***************************************************************************)
(* LunchCrunch: the order history store (order_manager.py), the order      *)
(* value (order.py) and the order mailer (order_mailer.py) as wired by     *)
(* main.py.                                                                *)
(*                                                                         *)
(* Text is modelled at two levels.  Templates, rendered subjects/bodies    *)
(* and month options are sequences of one-character strings.  A line of    *)
(* the history file is the sequence of its ';'-separated fields after      *)
(* strip(); a blank line is the empty sequence of fields.                  *)
(***************************************************************************)
EXTENDS Integers, Sequences, FiniteSets, TLC

VARIABLES
    pc,              \* "start" | "manager" | "run": how far main.py's module code has run;
                     \* "crashed" when it raised
    file,            \* the history file DATA_FILE
    orders,          \* OrderManager.orders
    selected_month,  \* OrderManager.selected_month
    now,             \* the wall clock, <<year, month, day, hour, minute, second>>
    ticks,           \* number of clock steps taken (bounds the clock)
    mailer,          \* the OrderMailer object's attributes
    config_file,     \* the configuration file CONFIG_FILE
    last             \* observation of the most recent operation

vars == <<pc, file, orders, selected_month, now, ticks, mailer, config_file, last>>

-----------------------------------------------------------------------------
(* Bounds *)

MaxLines == 2      \* lines of a history file the store finds at startup
MaxFileLen == 3    \* add_order is explored while the file is shorter than this
MaxHistory == 2    \* place_order is explored while the file holds fewer lines than
                   \* this that are not in OrderManager.orders
MaxTicks == 1      \* clock steps
MaxMissing == 1    \* required settings the settings panel is explored to clear
TickSeconds == 50  \* seconds per clock step, below 60
MaxPieces == 3     \* pieces a template handed to fill_all is put together from

-----------------------------------------------------------------------------
(* Characters, decimal formatting and parsing *)

DigitChars == <<"0", "1", "2", "3", "4", "5", "6", "7", "8", "9">>

RECURSIVE Dec(_)
\* f'{n}' for an int n
Dec(n) ==
    IF n < 0 THEN <<"-">> \o Dec(0 - n)
    ELSE IF n < 10 THEN <<DigitChars[n + 1]>>
    ELSE Dec(n \div 10) \o <<DigitChars[(n % 10) + 1]>>

\* %d, %m, %H, %M of strftime: two digits, zero padded
Pad2(n) == IF n < 10 THEN <<"0">> \o Dec(n) ELSE Dec(n)

\* %Y of strftime (years of four digits)
Pad4(n) == Dec(n)

IsDigit(c) == \E i \in 1..10 : DigitChars[i] = c

DigitVal(c) == (CHOOSE i \in 1..10 : DigitChars[i] = c) - 1

RECURSIVE DigitsVal(_)
DigitsVal(s) ==
    IF s = <<>> THEN 0
    ELSE 10 * DigitsVal(SubSeq(s, 1, Len(s) - 1)) + DigitVal(s[Len(s)])

\* int(s): [ok, v]; ok = FALSE stands for ValueError
ParseInt(s) ==
    IF s # <<>> /\ \A i \in 1..Len(s) : IsDigit(s[i])
    THEN [ok |-> TRUE, v |-> DigitsVal(s)]
    ELSE [ok |-> FALSE, v |-> 0]

RECURSIVE Split(_, _)
\* s.split(sep) for a one-character separator
Split(s, sep) ==
    IF \A i \in 1..Len(s) : s[i] # sep THEN <<s>>
    ELSE LET i == CHOOSE j \in 1..Len(s) :
                      s[j] = sep /\ \A k \in 1..(j - 1) : s[k] # sep
         IN <<SubSeq(s, 1, i - 1)>> \o Split(SubSeq(s, i + 1, Len(s)), sep)

-----------------------------------------------------------------------------
(* Calendar *)

IsLeap(y) == (y % 4 = 0 /\ y % 100 # 0) \/ y % 400 = 0

DaysInMonth(y, m) ==
    IF m = 2 THEN (IF IsLeap(y) THEN 29 ELSE 28)
    ELSE IF m \in {4, 6, 9, 11} THEN 30 ELSE 31

NextDay(t) ==
    IF t[3] < DaysInMonth(t[1], t[2]) THEN <<t[1], t[2], t[3] + 1, t[4], t[5], t[6]>>
    ELSE IF t[2] < 12 THEN <<t[1], t[2] + 1, 1, t[4], t[5], t[6]>>
    ELSE <<t[1] + 1, 1, 1, t[4], t[5], t[6]>>

\* advance a datetime by n seconds, 0 <= n < 60
AddSeconds(t, n) ==
    IF t[6] + n < 60 THEN <<t[1], t[2], t[3], t[4], t[5], t[6] + n>>
    ELSE IF t[5] < 59 THEN <<t[1], t[2], t[3], t[4], t[5] + 1, t[6] + n - 60>>
    ELSE IF t[4] < 23 THEN <<t[1], t[2], t[3], t[4] + 1, 0, t[6] + n - 60>>
    ELSE NextDay(<<t[1], t[2], t[3], 0, 0, t[6] + n - 60>>)

\* the moment the interpreter imports the modules
StartTime == <<2024, 12, 31, 23, 59, 10>>

-----------------------------------------------------------------------------
(* order.py *)

\* a Python value held in Order.counts: a dict (ordered key/value pairs) or,
\* when read back by ast.literal_eval, possibly another literal (an int)
Dict(d) == [t |-> "dict", d |-> d, n |-> 0]
IntLit(n) == [t |-> "int", d |-> <<>>, n |-> n]
NoLit == [t |-> "none", d |-> <<>>, n |-> 0]

Pair(g, v) == [g |-> g, v |-> v]

\* Order(counts, datetime)
Order(counts, dt) == [counts |-> counts, datetime |-> dt]

RECURSIVE SumValues(_)
SumValues(d) == IF d = <<>> THEN 0 ELSE d[1].v + SumValues(Tail(d))

\* total_count as the number of entries, len(self.counts)
OrderTotalEntries(o) ==
    IF o.counts.t = "dict" THEN [ok |-> TRUE, v |-> Len(o.counts.d)]
    ELSE [ok |-> FALSE, v |-> 0]

\* Order.total_count: [ok, v]; ok = FALSE stands for the AttributeError of
\* counts.values() on a value that is not a dict
OrderTotal(o) ==
    IF o.counts.t = "dict" THEN [ok |-> TRUE, v |-> SumValues(o.counts.d)]
    ELSE [ok |-> FALSE, v |-> 0]

\* Order.now()
OrderNow(o, t) == [o EXCEPT !.datetime = t]

-----------------------------------------------------------------------------
(* Fields and lines of the history file *)

NoDt == <<>>

\* text 'DD.MM.YYYY HH:MM' of a valid date (strptime accepts it)
DateField(dt) == [k |-> "date", dt |-> dt, c |-> NoLit, n |-> 0]
\* text of a Python literal (ast.literal_eval accepts it)
LitField(c) == [k |-> "lit", dt |-> NoDt, c |-> c, n |-> 0]
\* any other text; n tells texts apart, c # NoLit marks a piece of a dict repr
TextField(c, n) == [k |-> "text", dt |-> NoDt, c |-> c, n |-> n]

HeaderLine == <<TextField(NoLit, 0)>>
BlankLine == <<>>

HasSemicolon(g) == g = "C;D"

RECURSIVE CountSemicolons(_)
CountSemicolons(d) ==
    IF d = <<>> THEN 0
    ELSE (IF HasSemicolon(d[1].g) THEN 1 ELSE 0) + CountSemicolons(Tail(d))

\* str(counts) as the fields it contributes to a line: the repr of a dict is
\* one field unless a key contains ';', which cuts it into pieces
ReprFields(c) ==
    IF c.t = "dict" /\ CountSemicolons(c.d) > 0
    THEN [i \in 1..(CountSemicolons(c.d) + 1) |-> TextField(c, i)]
    ELSE <<LitField(c)>>

\* datetime.strftime(DATE_FORMAT): seconds are dropped
StrfDateFormat(dt) == DateField(SubSeq(dt, 1, 5))

\* Order.__str__: [ok, v]; it raises when total_count does
OrderStr(o) ==
    IF OrderTotal(o).ok
    THEN [ok |-> TRUE,
          v |-> <<StrfDateFormat(o.datetime)>> \o ReprFields(o.counts)
                    \o <<LitField(IntLit(OrderTotal(o).v))>>]
    ELSE [ok |-> FALSE, v |-> <<>>]

-----------------------------------------------------------------------------
(* order_manager.py: load_orders *)

AlleMonate == <<"Alle Monate">>

\* the try block of the loop body: [ok, v]
ParseLine(line) ==
    IF Len(line) = 3 /\ line[1].k = "date" /\ line[2].k = "lit"
    THEN [ok |-> TRUE, v |-> Order(line[2].c, line[1].dt \o <<0>>)]
    ELSE [ok |-> FALSE, v |-> Order(NoLit, NoDt)]

RECURSIVE ParseLines(_)
\* the for loop: blank lines are passed over, lines that raise are skipped
ParseLines(lines) ==
    IF lines = <<>> THEN <<>>
    ELSE IF lines[1] = BlankLine THEN ParseLines(Tail(lines))
    ELSE IF ParseLine(lines[1]).ok
         THEN <<ParseLine(lines[1]).v>> \o ParseLines(Tail(lines))
         ELSE ParseLines(Tail(lines))

RECURSIVE ParseWarnings(_)
\* number of logger.warning calls of the loop
ParseWarnings(lines) ==
    IF lines = <<>> THEN 0
    ELSE (IF lines[1] # BlankLine /\ ~ParseLine(lines[1]).ok THEN 1 ELSE 0)
             + ParseWarnings(Tail(lines))

\* the file: exists, readable (open and decoding succeed), its lines
File(e, r, ls) == [exists |-> e, readable |-> r, lines |-> ls]
AbsentFile == File(FALSE, TRUE, <<>>)

\* load_orders with the parse errors caught around the loop instead of in it
LoadOrdersAllOrNothing(f) ==
    IF ~f.exists
    THEN [ret |-> <<>>, file |-> File(TRUE, TRUE, <<HeaderLine>>),
          warnings |-> 0, errors |-> 0, raised |-> ""]
    ELSE IF ~f.readable \/ ParseWarnings(f.lines) > 0
    THEN [ret |-> <<>>, file |-> f, warnings |-> 0, errors |-> 1, raised |-> ""]
    ELSE [ret |-> ParseLines(f.lines), file |-> f,
          warnings |-> 0, errors |-> 0, raised |-> ""]

\* load_orders that creates the missing file without the header
LoadOrdersNoHeader(f) ==
    IF ~f.exists
    THEN [ret |-> <<>>, file |-> File(TRUE, TRUE, <<>>),
          warnings |-> 0, errors |-> 0, raised |-> ""]
    ELSE IF ~f.readable
    THEN [ret |-> <<>>, file |-> f, warnings |-> 0, errors |-> 1, raised |-> ""]
    ELSE [ret |-> ParseLines(f.lines), file |-> f,
          warnings |-> ParseWarnings(f.lines), errors |-> 0, raised |-> ""]

\* load_orders: the returned list, the file afterwards, warnings, errors logged
LoadOrders(f) ==
    IF ~f.exists
    THEN [ret |-> <<>>, file |-> File(TRUE, TRUE, <<HeaderLine>>),
          warnings |-> 0, errors |-> 0, raised |-> ""]
    ELSE IF ~f.readable
    THEN [ret |-> <<>>, file |-> f, warnings |-> 0, errors |-> 1, raised |-> ""]
    ELSE [ret |-> ParseLines(f.lines), file |-> f,
          warnings |-> ParseWarnings(f.lines), errors |-> 0, raised |-> ""]

-----------------------------------------------------------------------------
(* order_manager.py: add_order *)

\* add_order that appends to the list before it writes
AddOrderResultMemoryFirst(f, os, order, io) ==
    IF io = "ok" /\ OrderStr(order).ok
    THEN [file |-> File(TRUE, f.readable, Append(f.lines, OrderStr(order).v)),
          orders |-> Append(os, order), raised |-> "", errors |-> 0]
    ELSE [file |-> f, orders |-> Append(os, order), raised |-> "OSError", errors |-> 1]

\* add_order(order) under an I/O outcome io:
\*   "ok"          open and write succeed
\*   "open_fails"  open(data_file, 'a') raises OSError
\*   "write_fails" the file is opened (created when absent), write raises OSError
\* open() runs before str(order) is evaluated, so an order whose __str__
\* raises still leaves an opened (created) file behind.
AddOrderResult(f, os, order, io) ==
    IF io = "open_fails"
    THEN [file |-> f, orders |-> os, raised |-> "OSError", errors |-> 1]
    ELSE IF ~OrderStr(order).ok
    THEN [file |-> File(TRUE, f.readable, f.lines), orders |-> os,
          raised |-> "AttributeError", errors |-> 1]
    ELSE IF io = "write_fails"
    THEN [file |-> File(TRUE, f.readable, f.lines), orders |-> os,
          raised |-> "OSError", errors |-> 1]
    ELSE [file |-> File(TRUE, f.readable, Append(f.lines, OrderStr(order).v)),
          orders |-> Append(os, order), raised |-> "", errors |-> 0]

-----------------------------------------------------------------------------
(* order_manager.py: month_options, filtered_orders, total_count *)

\* comparison of (month, year), as sorting the formatted pairs would do
TupleLessMonthFirst(a, b) == a[2] < b[2] \/ (a[2] = b[2] /\ a[1] < b[1])

\* Python's tuple comparison on (year, month)
TupleLess(a, b) == a[1] < b[1] \/ (a[1] = b[1] /\ a[2] < b[2])

RECURSIVE SortedReverse(_)
\* sorted(S, reverse=True)
SortedReverse(S) ==
    IF S = {} THEN <<>>
    ELSE LET m == CHOOSE x \in S : \A y \in S : y = x \/ TupleLess(y, x)
         IN <<m>> \o SortedReverse(S \ {m})

\* f'{m}/{y}'
FormatMonth(ym) == Dec(ym[2]) \o <<"/">> \o Dec(ym[1])

MonthSet(os) == {<<os[i].datetime[1], os[i].datetime[2]>> : i \in 1..Len(os)}

\* month_options offering only the most recent month
month_optionsLatestOnly(os) ==
    LET month_list == SortedReverse(MonthSet(os))
    IN <<AlleMonate>> \o (IF month_list = <<>> THEN <<>> ELSE <<FormatMonth(month_list[1])>>)

\* OrderManager.month_options
month_options(os) ==
    LET month_list == SortedReverse(MonthSet(os))
    IN <<AlleMonate>> \o [i \in 1..Len(month_list) |-> FormatMonth(month_list[i])]

\* year, month = map(int, selected_month.split('/'))
ParseSelectionYearFirst(sel) ==
    LET parts == Split(sel, "/")
    IN IF Len(parts) = 2 /\ ParseInt(parts[1]).ok /\ ParseInt(parts[2]).ok
       THEN [ok |-> TRUE, month |-> ParseInt(parts[2]).v, year |-> ParseInt(parts[1]).v]
       ELSE [ok |-> FALSE, month |-> 0, year |-> 0]

\* month, year = map(int, selected_month.split('/')): [ok, month, year]
ParseSelection(sel) ==
    LET parts == Split(sel, "/")
    IN IF Len(parts) = 2 /\ ParseInt(parts[1]).ok /\ ParseInt(parts[2]).ok
       THEN [ok |-> TRUE, month |-> ParseInt(parts[1]).v, year |-> ParseInt(parts[2]).v]
       ELSE [ok |-> FALSE, month |-> 0, year |-> 0]

\* OrderManager.filtered_orders: [ok, v]; ok = FALSE stands for ValueError
filtered_orders(os, sel) ==
    IF sel # AlleMonate
    THEN LET p == ParseSelection(sel)
             Match(o) == o.datetime[1] = p.year /\ o.datetime[2] = p.month
         IN IF p.ok THEN [ok |-> TRUE, v |-> SelectSeq(os, Match)]
            ELSE [ok |-> FALSE, v |-> <<>>]
    ELSE [ok |-> TRUE, v |-> os]

RECURSIVE SumTotals(_)
\* sum(o.total_count for o in list): [ok, v]
SumTotals(os) ==
    IF os = <<>> THEN [ok |-> TRUE, v |-> 0]
    ELSE IF ~OrderTotal(os[1]).ok THEN [ok |-> FALSE, v |-> 0]
    ELSE LET rest == SumTotals(Tail(os))
         IN IF rest.ok THEN [ok |-> TRUE, v |-> OrderTotal(os[1]).v + rest.v]
            ELSE [ok |-> FALSE, v |-> 0]

\* total_count summed over self.orders instead of the filtered list
total_countUnfiltered(os, sel) ==
    IF filtered_orders(os, sel).ok THEN SumTotals(os) ELSE [ok |-> FALSE, v |-> 0]

\* OrderManager.total_count: [ok, v]
total_count(os, sel) ==
    LET f == filtered_orders(os, sel)
    IN IF f.ok THEN SumTotals(f.v) ELSE [ok |-> FALSE, v |-> 0]

-----------------------------------------------------------------------------
(* order_mailer.py: placeholders *)

AnzahlToken == <<"{", "A", "n", "z", "a", "h", "l", "}">>
DatumToken == <<"{", "D", "a", "t", "u", "m", "}">>

StartsWith(s, tok) == Len(s) >= Len(tok) /\ SubSeq(s, 1, Len(tok)) = tok

RECURSIVE ReplaceFirstFrom(_, _, _)
ReplaceFirstFrom(text, token, value) ==
    IF Len(text) < Len(token) THEN text
    ELSE IF StartsWith(text, token)
         THEN value \o SubSeq(text, Len(token) + 1, Len(text))
         ELSE <<text[1]>> \o ReplaceFirstFrom(Tail(text), token, value)

\* text.replace(token, value, 1): the first occurrence only
ReplaceFirst(text, token, value) == ReplaceFirstFrom(text, token, value)

RECURSIVE Replace(_, _, _)
\* text.replace(token, value): left to right, non-overlapping
Replace(text, token, value) ==
    IF Len(text) < Len(token) THEN text
    ELSE IF StartsWith(text, token)
         THEN value \o Replace(SubSeq(text, Len(token) + 1, Len(text)), token, value)
         ELSE <<text[1]>> \o Replace(Tail(text), token, value)

\* lambda: f'{self.order.total_count}'
AnzahlValue(order) == Dec(OrderTotal(order).v)

\* lambda: self.order.datetime.strftime('%d.%m.%Y')
DatumValue(order) ==
    Pad2(order.datetime[3]) \o <<".">> \o Pad2(order.datetime[2]) \o <<".">>
        \o Pad4(order.datetime[1])

\* Placeholder(token, replacement) with the value its replacement gives when
\* fill is called
Placeholder(token, value) == [token |-> token, value |-> value]

\* fill that replaces the first occurrence only
PlaceholderFillFirst(p, text) == ReplaceFirst(text, p.token, p.value)

\* Placeholder.fill
PlaceholderFill(p, text) == Replace(text, p.token, p.value)

RECURSIVE PlaceholderListFillAll(_, _)
\* PlaceholderList.fill_all: each placeholder in declaration order fills the
\* text the previous one returned
PlaceholderListFillAll(data, text) ==
    IF data = <<>> THEN text
    ELSE PlaceholderListFillAll(Tail(data), PlaceholderFill(data[1], text))

\* placeholders whose values were computed once, when the list was built
\* for the freshly constructed order
PlaceholdersAtConstruction(order) ==
    <<Placeholder(AnzahlToken, <<"0">>),
      Placeholder(DatumToken,
                  <<"3", "1", ".", "1", "2", ".", "2", "0", "2", "4">>)>>

\* OrderMailer.placeholders with the values the lambdas give for order
Placeholders(order) ==
    <<Placeholder(AnzahlToken, AnzahlValue(order)), Placeholder(DatumToken, DatumValue(order))>>

\* self.placeholders.fill_all(text) of a mailer whose in-progress order is order
fill_all(text, order) == PlaceholderListFillAll(Placeholders(order), text)

\* OrderMailer.subject / OrderMailer.body
subject(m) == fill_all(m.subject_template, m.order)
body(m) == fill_all(m.template, m.order)

-----------------------------------------------------------------------------
(* order_mailer.py: construction *)

\* Order.datetime's dataclass default, datetime.now() evaluated once when the
\* class body runs at import
OrderDefaultDatetime == StartTime

\* what load_config() returned: a full document, or {} (has = FALSE)
Config(g, srv, port, user, pw, tls, addr, subj, text) ==
    [has |-> TRUE, groups |-> g, server |-> srv, port |-> port, username |-> user,
     password |-> pw, use_tls |-> tls, addr |-> addr, subject |-> subj, text |-> text]
EmptyConfig == [has |-> FALSE, groups |-> <<>>, server |-> "", port |-> 0, username |-> "",
                password |-> "", use_tls |-> FALSE, addr |-> <<>>, subject |-> <<>>,
                text |-> <<>>]

\* OrderMailer.__init__(config_file, data_file) once load_config() returned config
MailerNew(config, data_file) ==
    LET groups == IF config.has THEN config.groups ELSE <<>>
    IN [groups |-> groups,
        order |-> Order(Dict([i \in 1..Len(groups) |-> Pair(groups[i], 0)]),
                        OrderDefaultDatetime),
        smtp_server |-> IF config.has THEN config.server ELSE "",
        smtp_port |-> IF config.has THEN config.port ELSE 587,
        smtp_port_type |-> IF config.has THEN "Integer" ELSE "int",
        username |-> IF config.has THEN config.username ELSE "",
        password |-> IF config.has THEN config.password ELSE "",
        use_tls |-> IF config.has THEN config.use_tls ELSE TRUE,
        to_addr |-> IF config.has THEN config.addr ELSE <<>>,
        subject_template |-> IF config.has THEN config.subject ELSE <<>>,
        template |-> IF config.has THEN config.text ELSE <<>>,
        data_file |-> data_file]

\* the mailer before main.py constructed it
NoMailer == MailerNew(EmptyConfig, "")

\* the configuration file: absent; "syntax", text tomlkit.parse rejects or
\* bytes that cannot be read as UTF-8; "shape", TOML that parses but whose
\* 'sender' is a string instead of a table; "doc", a document of the layout
\* create_config writes
AbsentConfigFile == [kind |-> "absent", doc |-> EmptyConfig]
SyntaxConfigFile == [kind |-> "syntax", doc |-> EmptyConfig]
ShapeConfigFile == [kind |-> "shape", doc |-> EmptyConfig]
ConfigFileOf(doc) == [kind |-> "doc", doc |-> doc]

\* OrderMailer.load_config: what it returns and the errors it logs
load_config(cf) ==
    IF cf.kind = "absent" THEN [config |-> EmptyConfig, errors |-> 0]
    ELSE IF cf.kind = "syntax" THEN [config |-> EmptyConfig, errors |-> 1]
    ELSE [config |-> cf.doc, errors |-> 0]

\* OrderMailer(config_file, data_file): config.get('sender', {}) gives the
\* string of a "shape" file, and .get on it raises
OrderMailerInit(cf, data_file) ==
    IF cf.kind = "shape"
    THEN [raised |-> "AttributeError", errors |-> 0, mailer |-> NoMailer]
    ELSE [raised |-> "", errors |-> load_config(cf).errors,
          mailer |-> MailerNew(load_config(cf).config, data_file)]

\* OrderMailer.create_config
create_config(m) ==
    Config(m.groups, m.smtp_server, m.smtp_port, m.username, m.password, m.use_tls,
           m.to_addr, m.subject_template, m.template)

\* OrderMailer.save_config under an I/O outcome: open(.., 'w') empties the
\* file before write() can fail; every failure is logged and swallowed
SaveConfigResult(m, cf, io) ==
    IF io = "open_fails" THEN [file |-> cf, errors |-> 1, raised |-> ""]
    ELSE IF io = "write_fails"
    THEN [file |-> ConfigFileOf(EmptyConfig), errors |-> 1, raised |-> ""]
    ELSE [file |-> ConfigFileOf(create_config(m)), errors |-> 0, raised |-> ""]

-----------------------------------------------------------------------------
(* order_mailer.py: place_order *)

\* ConfigError without the password check
ConfigErrorNoPassword(m) ==
    IF m.smtp_server = "" THEN "SMTP Server"
    ELSE IF m.smtp_port = 0 THEN "SMTP Port"
    ELSE IF m.username = "" THEN "Absenderadresse"
    ELSE IF m.to_addr = <<>> THEN "Empfaengeradresse"
    ELSE ""

\* the first failing configuration check, "" when all five pass
ConfigError(m) ==
    IF m.smtp_server = "" THEN "SMTP Server"
    ELSE IF m.smtp_port = 0 THEN "SMTP Port"
    ELSE IF m.username = "" THEN "Absenderadresse"
    ELSE IF m.password = "" THEN "Passwort"
    ELSE IF m.to_addr = <<>> THEN "Empfaengeradresse"
    ELSE ""

\* the EmailMessage built before connecting
Message(m) == [from |-> m.username, to |-> m.to_addr, subject |-> subject(m), body |-> body(m)]

\* the SMTP commands issued when stage fails ("ok": none does); leaving the
\* with block issues QUIT whenever the connection was made
SmtpTrace(m, stage) ==
    LET tls == IF m.use_tls THEN <<"starttls">> ELSE <<>>
    IN IF stage = "connect" THEN <<"connect">>
       ELSE IF stage = "starttls" THEN <<"connect", "starttls", "quit">>
       ELSE IF stage = "login" THEN <<"connect">> \o tls \o <<"login", "quit">>
       ELSE <<"connect">> \o tls \o <<"login", "send_message", "quit">>

\* the server accepted the message
Sent(stage) == stage \in {"ok", "quit"}

\* the append with the file opened in mode 'w'
AppendResultOverwrite(m, f, io) ==
    IF m.data_file # "DATA_FILE" THEN [file |-> f, raised |-> "TypeError"]
    ELSE IF io = "open_fails" THEN [file |-> f, raised |-> "OSError"]
    ELSE IF ~OrderStr(m.order).ok
    THEN [file |-> File(TRUE, f.readable, <<>>), raised |-> "AttributeError"]
    ELSE IF io = "write_fails"
    THEN [file |-> File(TRUE, f.readable, <<>>), raised |-> "OSError"]
    ELSE [file |-> File(TRUE, f.readable, <<OrderStr(m.order).v>>), raised |-> ""]

\* the append inside a try block that logs the failure and carries on
AppendResultLogged(m, f, io) ==
    IF m.data_file # "DATA_FILE" \/ io = "open_fails" THEN [file |-> f, raised |-> ""]
    ELSE IF ~OrderStr(m.order).ok \/ io = "write_fails"
    THEN [file |-> File(TRUE, f.readable, f.lines), raised |-> ""]
    ELSE [file |-> File(TRUE, f.readable, Append(f.lines, OrderStr(m.order).v)),
          raised |-> ""]

\* the with open(self.data_file, 'a') block: data_file is what the
\* constructor was given, a path or (main.py) the OrderManager object
AppendResult(m, f, io) ==
    IF m.data_file # "DATA_FILE" THEN [file |-> f, raised |-> "TypeError"]
    ELSE IF io = "open_fails" THEN [file |-> f, raised |-> "OSError"]
    ELSE IF ~OrderStr(m.order).ok
    THEN [file |-> File(TRUE, f.readable, f.lines), raised |-> "AttributeError"]
    ELSE IF io = "write_fails"
    THEN [file |-> File(TRUE, f.readable, f.lines), raised |-> "OSError"]
    ELSE [file |-> File(TRUE, f.readable, Append(f.lines, OrderStr(m.order).v)),
          raised |-> ""]

\* place_order that records the order although the transport failed
PlaceOrderResultAppendOnFailure(m, f, stage, io) ==
    IF ConfigError(m) # ""
    THEN [raised |-> "OrderMailerConfigError", smtp |-> <<>>, sent |-> <<>>, file |-> f]
    ELSE [raised |-> IF stage = "ok" THEN AppendResult(m, f, io).raised
                     ELSE IF stage = "connect" THEN "OSError" ELSE "SMTPException",
          smtp |-> SmtpTrace(m, stage),
          sent |-> IF Sent(stage) THEN <<Message(m)>> ELSE <<>>,
          file |-> AppendResult(m, f, io).file]

\* OrderMailer.place_order under a transport outcome (the stage that raises,
\* or "ok") and an I/O outcome of the history append
PlaceOrderResult(m, f, stage, io) ==
    IF ConfigError(m) # ""
    THEN [raised |-> "OrderMailerConfigError", smtp |-> <<>>, sent |-> <<>>, file |-> f]
    ELSE IF stage # "ok"
    THEN [raised |-> IF stage = "connect" THEN "OSError" ELSE "SMTPException",
          smtp |-> SmtpTrace(m, stage),
          sent |-> IF Sent(stage) THEN <<Message(m)>> ELSE <<>>,
          file |-> f]
    ELSE [raised |-> AppendResult(m, f, io).raised,
          smtp |-> SmtpTrace(m, stage),
          sent |-> <<Message(m)>>,
          file |-> AppendResult(m, f, io).file]

\* place_order that also starts a new in-progress order with zero counts
PlaceOrderMailerNewOrder(m) ==
    IF ConfigError(m) # "" THEN m
    ELSE [m EXCEPT !.smtp_port_type = "int",
                   !.order.counts = Dict([i \in 1..Len(m.groups) |-> Pair(m.groups[i], 0)])]

\* the mailer place_order leaves behind: once the checks passed,
\* self.smtp_port = int(self.smtp_port) makes the tomlkit Integer read from
\* the config file an int of the same number
PlaceOrderMailer(m) ==
    IF ConfigError(m) # "" THEN m
    ELSE [m EXCEPT !.smtp_port_type = "int"]

\* the steps with the append moved into the with block, before QUIT
PlaceOrderStepsWriteInSession(m, stage, io) ==
    IF ConfigError(m) # "" THEN <<>>
    ELSE IF stage # "ok" \/ m.data_file # "DATA_FILE" THEN SmtpTrace(m, stage)
    ELSE SubSeq(SmtpTrace(m, stage), 1, Len(SmtpTrace(m, stage)) - 1)
             \o (IF io = "open_fails" THEN <<"open">> ELSE <<"open", "write">>)
             \o <<"quit">>

\* the steps of place_order in the order they are taken, once the checks
\* passed: the SMTP commands, then open() and write() of the history append
\* (the last one listed is the one that raised, if any)
PlaceOrderSteps(m, stage, io) ==
    IF ConfigError(m) # "" THEN <<>>
    ELSE IF stage # "ok" THEN SmtpTrace(m, stage)
    ELSE SmtpTrace(m, stage)
             \o (IF m.data_file # "DATA_FILE" \/ io = "open_fails" THEN <<"open">>
                 ELSE <<"open", "write">>)

-----------------------------------------------------------------------------
(* main.py and history.py: UI handlers *)

\* the exception history_panel.refresh() or history_download() ends with
\* when it builds its rows from filtered_orders, "" when it builds them
RowsRaised(os, sel) ==
    IF ~filtered_orders(os, sel).ok THEN "ValueError"
    ELSE IF \E i \in 1..Len(filtered_orders(os, sel).v) :
                filtered_orders(os, sel).v[i].counts.t # "dict"
    THEN "AttributeError"
    ELSE ""

NotifySent == "Bestellung gesendet!"
NotifyConfig == "Fehler: Ungueltige Konfiguration. Bitte Einstellungen ueberpruefen."
NotifyDuplicate == "Es wurde bereits eine Bestellung fuer heute gesendet."
NotifyError == "Fehler beim Senden der Bestellung"
NotifySaved == "Einstellungen gespeichert!"
NotifyReset == "Einstellungen zurueckgesetzt!"

\* the handler without its last except clause
UIPlaceOrderNoCatchAll(raised, refresh) ==
    IF raised = "" /\ refresh = "" THEN [notify |-> <<NotifySent>>, escaped |-> ""]
    ELSE IF raised = "OrderMailerConfigError" THEN [notify |-> <<NotifyConfig>>, escaped |-> ""]
    ELSE IF raised = "DuplicateOrderError" THEN [notify |-> <<NotifyDuplicate>>, escaped |-> ""]
    ELSE [notify |-> <<>>, escaped |-> IF raised # "" THEN raised ELSE refresh]

\* main.py place_order once mailer.place_order() ended with raised ("" when
\* it returned) and, after a return, history_panel.refresh() with refresh:
\* the notifications shown and the exception that leaves the handler
UIPlaceOrder(raised, refresh) ==
    IF raised = "" /\ refresh = "" THEN [notify |-> <<NotifySent>>, escaped |-> ""]
    ELSE IF raised = "OrderMailerConfigError" THEN [notify |-> <<NotifyConfig>>, escaped |-> ""]
    ELSE IF raised = "DuplicateOrderError" THEN [notify |-> <<NotifyDuplicate>>, escaped |-> ""]
    ELSE [notify |-> <<NotifyError>>, escaped |-> ""]

\* main.py save_settings once mailer.save_config() ended with raised
UISaveSettings(raised) ==
    IF raised = "" THEN [notify |-> <<NotifySaved>>, escaped |-> ""]
    ELSE [notify |-> <<>>, escaped |-> raised]

\* main.py reset_settings: mailer.__init__(CONFIG_FILE) lacks the data_file
\* argument, so the call raises before __init__'s body runs
ResetSettingsResult(m, cf) ==
    [raised |-> "TypeError", mailer |-> m, notify |-> <<>>, escaped |-> "TypeError"]

-----------------------------------------------------------------------------
(* Inputs *)

RECURSIVE SeqsUpTo(_, _)
\* all sequences over S of length at most n
SeqsUpTo(S, n) ==
    IF n = 0 THEN {<<>>}
    ELSE LET shorter == SeqsUpTo(S, n - 1)
         IN shorter \cup {Append(q, x) : q \in shorter, x \in S}

March == <<2025, 3, 5, 12, 30>>
January == <<2025, 1, 1, 8, 0>>
December == <<2024, 12, 31, 9, 15>>

\* lines a history file may hold
LinePool ==
    { <<DateField(March), LitField(Dict(<<Pair("A", 1), Pair("B", 2)>>)), LitField(IntLit(3))>>,
      <<DateField(January), LitField(Dict(<<Pair("A", 0)>>)), LitField(IntLit(0))>>,
      <<DateField(December), LitField(Dict(<<Pair("B", 2)>>)), LitField(IntLit(2))>>,
      HeaderLine,
      BlankLine,
      \* '05.03.2025 12:30;5;5': the counts field is a literal but no dict
      <<DateField(March), LitField(IntLit(5)), LitField(IntLit(5))>>,
      \* a record whose key contains ';': four fields
      <<DateField(January)>> \o ReprFields(Dict(<<Pair("C;D", 1)>>)) \o <<LitField(IntLit(1))>>,
      \* the date does not match DATE_FORMAT
      <<TextField(NoLit, 1), LitField(Dict(<<Pair("A", 1)>>)), LitField(IntLit(1))>> }

\* a file that holds a record but cannot be read: no read permission, or a
\* byte that is not UTF-8 (a name typed in another encoding)
UnreadableFile ==
    File(TRUE, FALSE,
         <<(<<DateField(March), LitField(Dict(<<Pair("A", 1)>>)), LitField(IntLit(1))>>)>>)

\* a file whose record '01.01.2025 08:00;{'A': -3, 'B': 1};-2' holds a
\* negative count
NegativeCountsFile ==
    File(TRUE, TRUE,
         <<HeaderLine,
           <<DateField(January), LitField(Dict(<<Pair("A", -3), Pair("B", 1)>>)),
             LitField(IntLit(-2))>> >>)

\* history files the store may find at startup
StoreInitFiles ==
    {AbsentFile}
        \cup {File(TRUE, TRUE, ls) : ls \in SeqsUpTo(LinePool, MaxLines)}
        \cup {UnreadableFile, NegativeCountsFile}

\* history files the application may find at startup: none, a new one, one
\* with a record of StartTime's day, one with a record whose counts are no dict
AppInitFiles ==
    { AbsentFile,
      File(TRUE, TRUE, <<HeaderLine>>),
      File(TRUE, TRUE,
           <<HeaderLine,
             <<DateField(December), LitField(Dict(<<Pair("B", 2)>>)), LitField(IntLit(2))>> >>),
      File(TRUE, TRUE,
           <<HeaderLine,
             <<DateField(March), LitField(IntLit(5)), LitField(IntLit(5))>> >>) }

\* orders handed to add_order
OrderPool ==
    { Order(Dict(<<Pair("A", 1), Pair("B", 1)>>), March \o <<40>>),
      \* a group name that contains ';'
      Order(Dict(<<Pair("C;D", 2)>>), December \o <<0>>),
      Order(Dict(<<>>), <<2025, 3, 20, 7, 5, 59>>) }

IoOutcomes == {"ok", "open_fails", "write_fails"}

TransportOutcomes == {"ok", "connect", "starttls", "login", "send_message", "quit"}

SubjectText == <<"B", " ">> \o DatumToken
BodyText == AnzahlToken \o <<"x">>

ConfigPool ==
    { EmptyConfig,
      Config(<<"A", "B">>, "mail.example.com", 587, "kita@example.com", "secret", TRUE,
             <<"kueche@example.com">>, SubjectText, BodyText) }

\* history files for the runs over every operation: none, and one with a
\* record
OpsInitFiles == {f \in AppInitFiles : \A i \in 1..Len(f.lines) : f.lines[i][1].dt # March}

\* configuration files the application may find at startup
AppConfigFiles == {AbsentConfigFile} \cup {ConfigFileOf(c) : c \in ConfigPool \ {EmptyConfig}}

\* configuration files of every kind
ConfigFilePool ==
    {AbsentConfigFile, SyntaxConfigFile, ShapeConfigFile}
        \cup {ConfigFileOf(c) : c \in ConfigPool}

\* values the settings panel can put into a bound attribute
SettingValues(field) ==
    IF field = "smtp_server" THEN {"", "mail.example.com"}
    ELSE IF field = "smtp_port" THEN {0, 587}
    ELSE IF field = "username" THEN {"", "kita@example.com"}
    ELSE IF field = "password" THEN {"", "secret"}
    ELSE IF field = "use_tls" THEN BOOLEAN
    ELSE {<<>>, <<"kueche@example.com">>}

SettingFields == {"smtp_server", "smtp_port", "username", "password", "use_tls", "to_addr"}

\* counts the order panel's number inputs are given
CountValues == {0, 2}

\* selections tried on the store: the offered options and a month that is
\* absent from the history
SelectionPool(os) ==
    {month_options(os)[i] : i \in 1..Len(month_options(os))}
        \cup {FormatMonth(<<2025, 2>>)}

NameToken == <<"{", "N", "a", "m", "e", "}">>

\* pieces of template text: the mailer's tokens, a token-shaped text, plain
\* text, and the two halves of a token
TemplatePieces ==
    {AnzahlToken, DatumToken, NameToken, <<"x">>, <<"{", "D", "a">>, <<"t", "u", "m", "}">>}

RECURSIVE Concat(_)
Concat(q) == IF q = <<>> THEN <<>> ELSE q[1] \o Concat(Tail(q))

\* templates handed to fill_all
TemplatePool == {Concat(q) : q \in SeqsUpTo(TemplatePieces, MaxPieces)}

\* placeholder lists: the mailer's own for two orders, the empty list, and
\* lists of static placeholders
PlaceholderListPool ==
    { Placeholders(Order(Dict(<<Pair("A", 1), Pair("B", 2)>>), March \o <<40>>)),
      Placeholders(Order(Dict(<<>>), December \o <<0>>)),
      <<>>,
      <<Placeholder(NameToken, <<"K", "i", "t", "a">>)>>,
      \* a value that holds the token of the next placeholder
      <<Placeholder(NameToken, DatumToken), Placeholder(DatumToken, <<"1", ".", "1", ".">>)>>,
      \* an empty value
      <<Placeholder(NameToken, <<>>), Placeholder(DatumToken, <<"1", ".", "1", ".">>)>>,
      \* a token that begins inside another one
      <<Placeholder(<<"}", "x">>, <<"!">>), Placeholder(NameToken, <<"K">>)>> }

\* templates typed into the settings panel
TemplateValues ==
    {SubjectText, BodyText, AnzahlToken \o <<"/">> \o DatumToken \o AnzahlToken}

-----------------------------------------------------------------------------
(* Observations *)

NoOrder == Order(NoLit, NoDt)

NoObs ==
    [op |-> "", raised |-> "", ret |-> <<>>, warnings |-> 0, errors |-> 0,
     preFile |-> AbsentFile, preOrders |-> <<>>, preMailer |-> NoMailer, arg |-> NoOrder,
     smtp |-> <<>>, sent |-> <<>>, at |-> NoDt, stage |-> "", io |-> "",
     text |-> <<>>, data |-> <<>>, out |-> <<>>, notify |-> <<>>, escaped |-> "",
     steps |-> <<>>]

\* an observation of operation op made in the current state
Obs(op) == [NoObs EXCEPT !.op = op, !.preFile = file, !.preOrders = orders,
                         !.preMailer = mailer, !.at = now]

-----------------------------------------------------------------------------
(* Actions *)

\* main.py: order_manager = OrderManager(DATA_FILE)
ManagerInit ==
    /\ pc = "start"
    /\ LET r == LoadOrders(file)
       IN /\ file' = r.file
          /\ orders' = r.ret
          /\ last' = [Obs("OrderManager") EXCEPT !.ret = r.ret, !.warnings = r.warnings,
                                                 !.errors = r.errors, !.raised = r.raised]
    /\ selected_month' = AlleMonate
    /\ pc' = "manager"
    /\ UNCHANGED <<now, ticks, mailer, config_file>>

\* order_manager.load_orders() called again
Load ==
    /\ pc # "start"
    /\ LET r == LoadOrders(file)
       IN /\ file' = r.file
          /\ last' = [Obs("load_orders") EXCEPT !.ret = r.ret, !.warnings = r.warnings,
                                                !.errors = r.errors, !.raised = r.raised]
    /\ UNCHANGED <<pc, orders, selected_month, now, ticks, mailer, config_file>>

\* order_manager.add_order(order)
AddOrder ==
    /\ pc # "start"
    /\ Len(file.lines) < MaxFileLen
    /\ \E order \in OrderPool, io \in IoOutcomes :
          LET r == AddOrderResult(file, orders, order, io)
          IN /\ file' = r.file
             /\ orders' = r.orders
             /\ last' = [Obs("add_order") EXCEPT !.arg = order, !.io = io,
                                                 !.errors = r.errors, !.raised = r.raised]
    /\ UNCHANGED <<pc, selected_month, now, ticks, mailer, config_file>>

\* history.py on_month_change, or any assignment to selected_month
SelectMonth ==
    /\ pc # "start"
    /\ \E sel \in SelectionPool(orders) :
          /\ sel # selected_month
          /\ selected_month' = sel
    /\ last' = NoObs
    /\ UNCHANGED <<pc, file, orders, now, ticks, mailer, config_file>>

\* history.py history_panel: the select offers month_options and its
\* on_change stores the chosen option
SelectOffered ==
    /\ pc # "start"
    /\ \E i \in 1..Len(month_options(orders)) :
          /\ month_options(orders)[i] # selected_month
          /\ selected_month' = month_options(orders)[i]
    /\ last' = [Obs("select") EXCEPT !.ret = filtered_orders(orders, selected_month').v]
    /\ UNCHANGED <<pc, file, orders, now, ticks, mailer, config_file>>

\* main.py: mailer = OrderMailer(CONFIG_FILE, order_manager); the class is
\* also modelled with the path its data_file parameter is opened as
MailerInit ==
    /\ pc = "manager"
    /\ \E data_file \in {"DATA_FILE", "order_manager"} :
          LET r == OrderMailerInit(config_file, data_file)
          IN /\ mailer' = r.mailer
             /\ pc' = IF r.raised = "" THEN "run" ELSE "crashed"
             /\ last' = [Obs("OrderMailer") EXCEPT !.raised = r.raised, !.errors = r.errors]
    /\ UNCHANGED <<file, orders, selected_month, now, ticks, config_file>>

\* time passes: from StartTime one step crosses the minute, the day, the
\* month and the year
Tick ==
    /\ ticks < MaxTicks
    /\ now' = AddSeconds(now, TickSeconds)
    /\ ticks' = ticks + 1
    /\ last' = NoObs
    /\ UNCHANGED <<pc, file, orders, selected_month, mailer, config_file>>

\* number of required settings that are empty or zero
Missing(m) ==
    (IF m.smtp_server = "" THEN 1 ELSE 0) + (IF m.smtp_port = 0 THEN 1 ELSE 0)
        + (IF m.username = "" THEN 1 ELSE 0) + (IF m.password = "" THEN 1 ELSE 0)
        + (IF m.to_addr = <<>> THEN 1 ELSE 0)

\* main.py settings_panel: a bound input writes a mailer attribute
EditSetting ==
    /\ pc = "run"
    /\ \E field \in SettingFields :
          \E value \in SettingValues(field) :
              /\ mailer[field] # value
              /\ \/ Missing([mailer EXCEPT ![field] = value]) <= MaxMissing
                 \/ Missing([mailer EXCEPT ![field] = value]) < Missing(mailer)
              /\ mailer' = IF field = "smtp_port"
                            THEN [mailer EXCEPT !.smtp_port = value, !.smtp_port_type = "int"]
                            ELSE [mailer EXCEPT ![field] = value]
    /\ last' = NoObs
    /\ UNCHANGED <<pc, file, orders, selected_month, now, ticks, config_file>>

\* counts[group] = n on a dict of ordered pairs
SetItem(d, g, n) ==
    IF \E i \in 1..Len(d) : d[i].g = g
    THEN [i \in 1..Len(d) |-> IF d[i].g = g THEN Pair(g, n) ELSE d[i]]
    ELSE Append(d, Pair(g, n))

\* main.py order_panel on_change: the in-progress order's counts[group] = int(value) or 0
SetCount ==
    /\ pc = "run"
    /\ \E i \in 1..Len(mailer.groups), n \in CountValues :
          LET d == SetItem(mailer.order.counts.d, mailer.groups[i], n)
          IN /\ d # mailer.order.counts.d
             /\ mailer' = [mailer EXCEPT !.order.counts = Dict(d)]
    /\ last' = NoObs
    /\ UNCHANGED <<pc, file, orders, selected_month, now, ticks, config_file>>

\* main.py place_order: mailer.place_order(), then the history panel's
\* refresh and the notification; raised is what mailer.place_order() raised
PlaceOrder ==
    /\ pc = "run"
    /\ Len(file.lines) - Len(orders) < MaxHistory
    /\ \E stage \in TransportOutcomes, io \in IoOutcomes :
          /\ stage = "starttls" => mailer.use_tls
          /\ LET r == PlaceOrderResult(mailer, file, stage, io)
                 ui == UIPlaceOrder(r.raised, RowsRaised(orders, selected_month))
             IN /\ file' = r.file
                /\ mailer' = PlaceOrderMailer(mailer)
                /\ last' = [Obs("place_order") EXCEPT !.raised = r.raised, !.smtp = r.smtp,
                                                      !.sent = r.sent, !.stage = stage,
                                                      !.io = io, !.notify = ui.notify,
                                                      !.escaped = ui.escaped,
                                                      !.steps = PlaceOrderSteps(mailer, stage, io)]
    /\ UNCHANGED <<pc, orders, selected_month, now, ticks, config_file>>

\* main.py settings_panel: the subject or body template input writes its
\* mailer attribute
EditTemplate ==
    /\ pc = "run"
    /\ \E field \in {"subject_template", "template"}, value \in TemplateValues :
          /\ mailer[field] # value
          /\ mailer' = [mailer EXCEPT ![field] = value]
    /\ last' = NoObs
    /\ UNCHANGED <<pc, file, orders, selected_month, now, ticks, config_file>>

\* mailer.order.now()
MarkNow ==
    /\ pc = "run"
    /\ mailer' = [mailer EXCEPT !.order = OrderNow(mailer.order, now)]
    /\ last' = NoObs
    /\ UNCHANGED <<pc, file, orders, selected_month, now, ticks, config_file>>

\* a read of mailer.subject and of mailer.body (main.py order_panel preview)
Render ==
    /\ pc = "run"
    /\ last' = [Obs("render") EXCEPT !.out = <<subject(mailer), body(mailer)>>]
    /\ UNCHANGED <<pc, file, orders, selected_month, now, ticks, mailer, config_file>>

\* main.py save_settings
SaveSettings ==
    /\ pc = "run"
    /\ \E io \in IoOutcomes :
          LET r == SaveConfigResult(mailer, config_file, io)
              ui == UISaveSettings(r.raised)
          IN /\ config_file' = r.file
             /\ last' = [Obs("save_settings") EXCEPT !.raised = r.raised, !.errors = r.errors,
                                                     !.io = io, !.notify = ui.notify,
                                                     !.escaped = ui.escaped]
    /\ UNCHANGED <<pc, file, orders, selected_month, now, ticks, mailer>>

\* main.py reset_settings
ResetSettings ==
    /\ pc = "run"
    /\ LET r == ResetSettingsResult(mailer, config_file)
       IN /\ mailer' = r.mailer
          /\ last' = [Obs("reset_settings") EXCEPT !.raised = r.raised, !.notify = r.notify,
                                                   !.escaped = r.escaped]
    /\ UNCHANGED <<pc, file, orders, selected_month, now, ticks, config_file>>

\* history.py history_download: the export of the filtered orders
HistoryDownload ==
    /\ pc = "run"
    /\ last' = [Obs("history_download") EXCEPT
                    !.raised = RowsRaised(orders, selected_month),
                    !.escaped = RowsRaised(orders, selected_month),
                    !.ret = IF RowsRaised(orders, selected_month) = ""
                            THEN filtered_orders(orders, selected_month).v ELSE <<>>]
    /\ UNCHANGED <<pc, file, orders, selected_month, now, ticks, mailer, config_file>>

\* placeholders.fill_all(text) on the placeholder list and text at hand
FillAll ==
    /\ last' = [last EXCEPT !.op = "fill_all", !.ret = <<>>,
                            !.out = PlaceholderListFillAll(last.data, last.text)]
    /\ UNCHANGED <<pc, file, orders, selected_month, now, ticks, mailer, config_file>>

\* placeholders.fill_all applied to the text the previous fill_all returned
FillAllAgain ==
    /\ last.op = "fill_all"
    /\ last' = [last EXCEPT !.op = "fill_all_again",
                            !.ret = PlaceholderListFillAll(last.data, last.out)]
    /\ UNCHANGED <<pc, file, orders, selected_month, now, ticks, mailer, config_file>>

-----------------------------------------------------------------------------
(* Specifications *)

InitCommon ==
    /\ pc = "start"
    /\ orders = <<>>
    /\ selected_month = AlleMonate
    /\ now = StartTime
    /\ ticks = 0
    /\ mailer = NoMailer
    /\ last = NoObs

\* the application: main.py's module code, then user actions
Init == InitCommon /\ file \in AppInitFiles /\ config_file \in AppConfigFiles

Next ==
    \/ ManagerInit
    \/ MailerInit
    \/ Tick
    \/ EditSetting
    \/ SetCount
    \/ PlaceOrder

Spec == Init /\ [][Next]_vars

\* the history store alone, over the history files it may find
InitStore == InitCommon /\ file \in StoreInitFiles /\ config_file = AbsentConfigFile

NextStore ==
    \/ ManagerInit
    \/ Load
    \/ AddOrder
    \/ SelectMonth

SpecStore == InitStore /\ [][NextStore]_vars

\* the history view: selections among the offered options, and add_order
NextView ==
    \/ ManagerInit
    \/ AddOrder
    \/ SelectOffered

SpecView == InitStore /\ [][NextView]_vars

\* every operation that reads or writes the history file or the
\* configuration file, started with a configuration file that holds a full
\* document
InitOps ==
    InitCommon /\ file \in OpsInitFiles /\ config_file \in AppConfigFiles \ {AbsentConfigFile}

NextOps ==
    \/ ManagerInit
    \/ MailerInit
    \/ Load
    \/ AddOrder
    \/ PlaceOrder
    \/ HistoryDownload
    \/ SaveSettings
    \/ ResetSettings

SpecOps == InitOps /\ [][NextOps]_vars

\* the mailer's settings and its configuration file, over configuration
\* files of every kind
InitSettings ==
    InitCommon /\ file = File(TRUE, TRUE, <<HeaderLine>>) /\ config_file \in ConfigFilePool

NextSettings ==
    \/ ManagerInit
    \/ MailerInit
    \/ EditSetting
    \/ SaveSettings
    \/ ResetSettings

SpecSettings == InitSettings /\ [][NextSettings]_vars

\* PlaceholderList alone, over templates and placeholder lists
InitFill ==
    /\ pc = "start"
    /\ file = AbsentFile
    /\ orders = <<>>
    /\ selected_month = AlleMonate
    /\ now = StartTime
    /\ ticks = 0
    /\ mailer = NoMailer
    /\ config_file = AbsentConfigFile
    /\ \E text \in TemplatePool, data \in PlaceholderListPool :
          last = [NoObs EXCEPT !.text = text, !.data = data]

NextFill ==
    \/ FillAll
    \/ FillAllAgain

SpecFill == InitFill /\ [][NextFill]_vars

\* a constructed mailer whose order and templates change between reads of
\* its subject and body
InitRender ==
    /\ pc = "run"
    /\ file = File(TRUE, TRUE, <<HeaderLine>>)
    /\ orders = <<>>
    /\ selected_month = AlleMonate
    /\ now = StartTime
    /\ ticks = 0
    /\ config_file = ConfigFileOf(CHOOSE c \in ConfigPool : c.has)
    /\ mailer = OrderMailerInit(config_file, "DATA_FILE").mailer
    /\ last = NoObs

NextRender ==
    \/ Tick
    \/ SetCount
    \/ MarkNow
    \/ EditTemplate
    \/ Render

SpecRender == InitRender /\ [][NextRender]_vars

-----------------------------------------------------------------------------
(* Properties of place_order (specification Spec) *)

PlacedOrder == last.op = "place_order"

\* one of the five required settings is empty or zero
Unconfigured(m) ==
    \/ m.smtp_server = ""
    \/ m.smtp_port = 0
    \/ m.username = ""
    \/ m.password = ""
    \/ m.to_addr = <<>>

\* number of occurrences of command c in an SMTP trace
Occurrences(trace, c) == Cardinality({i \in 1..Len(trace) : trace[i] = c})

\* C1: place_order with an empty server, port, username, password or
\* recipient list raises OrderMailerConfigError, opens no SMTP connection,
\* sends nothing, and leaves the history file and the in-memory history as
\* they were.
C1_UnconfiguredPlaceOrderFails ==
    (PlacedOrder /\ Unconfigured(last.preMailer)) =>
        /\ last.raised = "OrderMailerConfigError"
        /\ last.smtp = <<>>
        /\ last.sent = <<>>
        /\ file = last.preFile
        /\ orders = last.preOrders

\* place_order was called with only the password missing
C1_Witness ==
    /\ PlacedOrder
    /\ last.preMailer.password = ""
    /\ last.preMailer.smtp_server # ""
    /\ last.preMailer.smtp_port # 0
    /\ last.preMailer.username # ""
    /\ last.preMailer.to_addr # <<>>
    /\ last.raised = "OrderMailerConfigError"

\* C2: when connect, STARTTLS, login, send (or the closing QUIT) raises, the
\* error reaches the caller, the call connects once and sends at most once,
\* and neither the history file nor the in-memory history gains an entry.
C2_TransportFailurePropagates ==
    (PlacedOrder /\ ~Unconfigured(last.preMailer) /\ last.stage # "ok") =>
        /\ last.raised # ""
        /\ last.raised # "OrderMailerConfigError"
        /\ Occurrences(last.smtp, "connect") = 1
        /\ Occurrences(last.smtp, "send_message") <= 1
        /\ file = last.preFile
        /\ orders = last.preOrders

\* send_message raised in a fully configured mailer
C2_Witness ==
    /\ PlacedOrder
    /\ ~Unconfigured(last.preMailer)
    /\ last.stage = "send_message"
    /\ last.raised = "SMTPException"
    /\ last.sent = <<>>

\* C3: every place_order that returns normally adds exactly one line to the
\* history file and exactly one element to OrderManager.orders, whose
\* total_count is the sum of the submitted counts.
C3_SuccessfulPlacementRecorded ==
    (PlacedOrder /\ last.raised = "") =>
        /\ Len(file.lines) = Len(last.preFile.lines) + 1
        /\ Len(orders) = Len(last.preOrders) + 1
        /\ OrderTotal(orders[Len(orders)]).v = SumValues(last.preMailer.order.counts.d)

\* C4: place_order stamps the in-progress order with the time of the call
\* before rendering: {Datum} in the sent subject and body is the day of
\* placement, and the appended record carries the time of placement.
C4_TimestampIsPlacementTime ==
    (PlacedOrder /\ last.sent # <<>>) =>
        LET placed == OrderNow(last.preMailer.order, last.at)
        IN /\ last.sent[1].subject = fill_all(last.preMailer.subject_template, placed)
           /\ last.sent[1].body = fill_all(last.preMailer.template, placed)
           /\ last.raised = "" =>
                  file.lines[Len(file.lines)][1] = StrfDateFormat(last.at)

-----------------------------------------------------------------------------
(* Properties of the history store (specification SpecStore) *)

Loaded == last.op \in {"OrderManager", "load_orders"}

\* a record line: three fields, a date in DATE_FORMAT, a Python literal
WellFormed(line) == Len(line) = 3 /\ line[1].k = "date" /\ line[2].k = "lit"

\* the k-th index (in increasing order) of the set idx of indices
Kth(idx, k) == CHOOSE i \in idx : Cardinality({j \in idx : j <= i}) = k

\* q is the elements of p at the indices idx, in the order of p
IsSelection(q, p, idx) ==
    /\ Len(q) = Cardinality(idx)
    /\ \A k \in 1..Len(q) : q[k] = p[Kth(idx, k)]

\* the orders of the well-formed lines, in file order
IsOrdersOf(ret, lines) ==
    LET idx == {i \in 1..Len(lines) : WellFormed(lines[i])}
    IN /\ Len(ret) = Cardinality(idx)
       /\ \A k \in 1..Len(ret) :
             /\ ret[k].counts = lines[Kth(idx, k)][2].c
             /\ SubSeq(ret[k].datetime, 1, 5) = lines[Kth(idx, k)][1].dt
             /\ ret[k].datetime[6] = 0

\* lines that were parsed and failed
FailedLines(lines) ==
    Cardinality({i \in 1..Len(lines) : lines[i] # BlankLine /\ ~WellFormed(lines[i])})

\* C5: add_order writes the line first and appends to the in-memory list
\* only after the write succeeded; when the write fails the error is raised
\* and the list is as before.
C5_AddOrderDiskFirst ==
    last.op = "add_order" =>
        /\ last.io # "ok" => (last.raised # "" /\ orders = last.preOrders)
        /\ last.io = "ok" =>
              (last.raised = "" /\ orders = Append(last.preOrders, last.arg))
        /\ orders # last.preOrders =>
              /\ Len(file.lines) = Len(last.preFile.lines) + 1
              /\ file.lines[Len(file.lines)][1].dt = SubSeq(last.arg.datetime, 1, 5)
              /\ SubSeq(file.lines, 1, Len(last.preFile.lines)) = last.preFile.lines

\* a write failed under add_order
C5_Witness ==
    /\ last.op = "add_order"
    /\ last.io = "write_fails"
    /\ last.raised = "OSError"
    /\ last.preOrders # <<>>

C8_MonthOptionsSortedDistinct ==
    pc # "start" =>
        LET opts == month_options(orders)
            Year(i) == ParseSelection(opts[i]).year
            Month(i) == ParseSelection(opts[i]).month
        IN /\ opts[1] = AlleMonate
           /\ Len(opts) = 1 + Cardinality(MonthSet(orders))
           /\ \A i \in 2..Len(opts) :
                 /\ ParseSelection(opts[i]).ok
                 /\ \E k \in 1..Len(orders) :
                       orders[k].datetime[1] = Year(i) /\ orders[k].datetime[2] = Month(i)
           /\ \A k \in 1..Len(orders) :
                 \E i \in 2..Len(opts) :
                    orders[k].datetime[1] = Year(i) /\ orders[k].datetime[2] = Month(i)
           /\ \A i, j \in 2..Len(opts) :
                 i < j => \/ Year(i) > Year(j)
                          \/ (Year(i) = Year(j) /\ Month(i) > Month(j))

\* orders of December 2024, March 2025 (twice) and January 2025 are offered
\* as 3/2025, 1/2025, 12/2024
C8_Witness ==
    /\ Len(orders) >= 3
    /\ month_options(orders) =
           << AlleMonate,
              <<"3", "/", "2", "0", "2", "5">>,
              <<"1", "/", "2", "0", "2", "5">>,
              <<"1", "2", "/", "2", "0", "2", "4">> >>

\* the months a selection may name: those of the histories explored, and
\* February, which none of them holds
YearRange == 2024..2025
MonthRange == {1, 2, 3, 12}

\* C9: with 'Alle Monate' filtered_orders is the whole list in its order;
\* with 'm/y' it is exactly the orders of month m and year y, in their
\* original relative order.
C9_FilteredOrdersExact ==
    pc # "start" =>
        /\ filtered_orders(orders, AlleMonate).ok
        /\ filtered_orders(orders, AlleMonate).v = orders
        /\ \A y \in YearRange, m \in MonthRange :
              LET r == filtered_orders(orders, FormatMonth(<<y, m>>))
                  idx == {i \in 1..Len(orders) :
                              orders[i].datetime[1] = y /\ orders[i].datetime[2] = m}
              IN r.ok /\ IsSelection(r.v, orders, idx)
        /\ filtered_orders(orders, selected_month).ok

\* '3/2025' is selected over a list with March 2025 and other months
C9_Witness ==
    /\ selected_month = <<"3", "/", "2", "0", "2", "5">>
    /\ Len(orders) = 3
    /\ Len(filtered_orders(orders, selected_month).v) = 2
    /\ orders[2].datetime[2] # 3

RECURSIVE SumOfCounts(_, _)
\* the counts of the first n orders of q added up
SumOfCounts(q, n) ==
    IF n = 0 THEN 0
    ELSE SumOfCounts(q, n - 1)
             + (IF q[n].counts.d = <<>> THEN 0
                ELSE LET d == q[n].counts.d
                         S[k \in 0..Len(d)] == IF k = 0 THEN 0 ELSE S[k - 1] + d[k].v
                     IN S[Len(d)])

\* C10: for every selection, OrderManager.total_count is the sum of
\* total_count over exactly the orders filtered_orders returns (0 for none);
\* it fails exactly when one of these orders has no total.
C10_TotalCountOfFiltered ==
    pc # "start" =>
        \A sel \in SelectionPool(orders) \cup {selected_month, FormatMonth(<<2024, 3>>)} :
            LET q == filtered_orders(orders, sel).v
                t == total_count(orders, sel)
            IN /\ t.ok = (\A i \in 1..Len(q) : q[i].counts.t = "dict")
               /\ t.ok => t.v = SumOfCounts(q, Len(q))
               /\ q = <<>> => (t.ok /\ t.v = 0)

\* a month is selected that leaves some orders out, and the total is the
\* sum of the selected ones only
C10_Witness ==
    /\ selected_month # AlleMonate
    /\ Len(filtered_orders(orders, selected_month).v) = 2
    /\ Len(orders) = 3
    /\ total_count(orders, selected_month).ok
    /\ total_count(orders, selected_month).v > 0
    /\ total_count(orders, AlleMonate).ok
    /\ total_count(orders, AlleMonate).v > total_count(orders, selected_month).v

-----------------------------------------------------------------------------
(* Properties of the in-progress order (specification Spec) *)

\* the values of the pairs d added up, position by position
ValuesAddedUp(d) ==
    LET S[k \in 0..Len(d)] == IF k = 0 THEN 0 ELSE S[k - 1] + d[k].v
    IN S[Len(d)]

\* C11: whenever it is read, the total of the in-progress order is the sum
\* of all values its counts mapping holds at that moment, zero counts
\* included; an empty or all-zero mapping gives 0.
C11_TotalIsSumOfCounts ==
    pc = "run" =>
        LET d == mailer.order.counts.d
            t == OrderTotal(mailer.order)
        IN /\ t.ok
           /\ t.v = ValuesAddedUp(d)
           /\ (\A i \in 1..Len(d) : d[i].v = 0) => t.v = 0

\* the counts were edited to one zero and one non-zero entry; the total is
\* the non-zero one
C11_Witness ==
    /\ pc = "run"
    /\ Len(mailer.order.counts.d) = 2
    /\ mailer.order.counts.d[1].v = 0
    /\ mailer.order.counts.d[2].v = 2
    /\ OrderTotal(mailer.order).v = 2

-----------------------------------------------------------------------------
(* Properties of placeholder filling (specification SpecFill) *)

RECURSIVE SubstituteAll(_, _)
\* text read once from left to right: where a listed token starts, the
\* (first such) placeholder's value stands in its place; every other
\* character stays
SubstituteAll(data, text) ==
    IF text = <<>> THEN <<>>
    ELSE LET hits == {i \in 1..Len(data) : StartsWith(text, data[i].token)}
         IN IF hits = {} THEN <<text[1]>> \o SubstituteAll(data, Tail(text))
            ELSE LET i == CHOOSE h \in hits : \A k \in hits : h <= k
                 IN data[i].value
                        \o SubstituteAll(data, SubSeq(text, Len(data[i].token) + 1, Len(text)))

Chars(q) == {q[i] : i \in 1..Len(q)}

\* token occurs somewhere in text
OccursIn(token, text) == \E k \in 1..Len(text) : StartsWith(SubSeq(text, k, Len(text)), token)

\* a non-empty proper end of token a is a beginning of token b, or a lies
\* inside b
Overlap(a, b) ==
    \/ \E n \in 1..(Len(a) - 1) :
          n <= Len(b) /\ SubSeq(a, Len(a) - n + 1, Len(a)) = SubSeq(b, 1, n)
    \/ OccursIn(a, b)

\* no value is empty or shares a character with a token, and no two tokens
\* overlap
Independent(data) ==
    \A i, j \in 1..Len(data) :
        /\ data[i].value # <<>>
        /\ Chars(data[i].value) \cap Chars(data[j].token) = {}
        /\ i # j => ~Overlap(data[i].token, data[j].token)

\* C12 as stated: for every template and placeholder list, fill_all returns
\* the template with every occurrence of every listed token replaced by its
\* placeholder's value and all other text verbatim.
C12_FillAllReplacesEveryToken ==
    last.op = "fill_all" => last.out = SubstituteAll(last.data, last.text)

\* C12 amended: the same for every placeholder list whose values are
\* non-empty and share no character with any listed token and whose tokens
\* do not overlap; a template in which no listed token occurs is returned
\* unchanged by every list.
C12_FillAllIndependentPlaceholders ==
    last.op = "fill_all" =>
        /\ Independent(last.data) => last.out = SubstituteAll(last.data, last.text)
        /\ (\A i \in 1..Len(last.data) : ~OccursIn(last.data[i].token, last.text))
               => last.out = last.text

\* the mailer's list filled a template that holds {Anzahl} twice around a
\* token it does not list
C12_Witness ==
    /\ last.op = "fill_all"
    /\ last.data = Placeholders(Order(Dict(<<Pair("A", 1), Pair("B", 2)>>), March \o <<40>>))
    /\ last.text = AnzahlToken \o NameToken \o AnzahlToken
    /\ last.out = <<"3">> \o NameToken \o <<"3">>

------------------------------------------------------------------------\* the mailer's own list: {Anzahl} and {Datum}, in this order
IsMailerList(data) ==
    /\ Len(data) = 2
    /\ data[1].token = AnzahlToken
    /\ data[2].token = DatumToken

\* C22: with the mailer's own placeholder list and an unchanged order,
\* filling the result of fill_all again returns it unchanged, for every
\* template, also where token text is nested in or overlaps token text.
C22_RenderingIdempotent ==
    (last.op = "fill_all_again" /\ IsMailerList(last.data)) => last.ret = last.out

\* {Anzahl} stood inside the text of {Datum}; the first pass left text that
\* holds no token and the second pass returned it as it was
C22_Witness ==
    /\ last.op = "fill_all_again"
    /\ IsMailerList(last.data)
    /\ last.text = <<"{", "D", "a">> \o AnzahlToken \o <<"t", "u", "m", "}">>
    /\ last.out = <<"{", "D", "a", "3", "t", "u", "m", "}">>
    /\ last.ret = last.out

-----
(* Properties of rendering (specification SpecRender) *)

\* 'DD.MM.YYYY' of a timestamp
DayText(dt) == Pad2(dt[3]) \o <<".">> \o Pad2(dt[2]) \o <<".">> \o Pad4(dt[1])

\* text with {Anzahl} and {Datum} standing for the order's total and day
Rendered(text, order) ==
    SubstituteAll(<<Placeholder(AnzahlToken, Dec(ValuesAddedUp(order.counts.d))),
                    Placeholder(DatumToken, DayText(order.datetime))>>, text)

\* C13: every read of subject and body shows the total and the date the
\* in-progress order has at that read, whatever its counts and timestamp
\* were at construction or at an earlier read.
C13_RenderShowsCurrentOrder ==
    last.op = "render" =>
        /\ last.out[1] = Rendered(mailer.subject_template, mailer.order)
        /\ last.out[2] = Rendered(mailer.template, mailer.order)

\* subject and body are read after the counts and the timestamp changed:
\* they show the new total and the new day
C13_Witness ==
    /\ last.op = "render"
    /\ mailer.subject_template = SubjectText
    /\ mailer.template = BodyText
    /\ ValuesAddedUp(mailer.order.counts.d) = 4
    /\ mailer.order.datetime # OrderDefaultDatetime
    /\ last.out[1] = <<"B", " ", "0", "1", ".", "0", "1", ".", "2", "0", "2", "5">>
    /\ last.out[2] = <<"4", "x">>

-----------------------------------------------------------------------------
(* Properties of place_order's history append (specification Spec) *)

\* the append of the observed place_order could not succeed: open() or
\* write() failed, or data_file is no path
AppendFailed ==
    last.io # "ok" \/ last.preMailer.data_file # "DATA_FILE"

\* C14: when the mail was sent and the append to the history then fails,
\* place_order ends with an error instead of returning, and the in-memory
\* history gains no entry.
C14_AppendFailureSurfaces ==
    (PlacedOrder /\ ~Unconfigured(last.preMailer) /\ last.stage = "ok" /\ AppendFailed) =>
        /\ Len(last.sent) = 1
        /\ last.raised # ""
        /\ orders = last.preOrders
        /\ file.lines = last.preFile.lines

\* the mail went out, then write() on the history file failed
C14_Witness ==
    /\ PlacedOrder
    /\ last.stage = "ok"
    /\ last.preMailer.data_file = "DATA_FILE"
    /\ last.io = "write_fails"
    /\ Len(last.sent) = 1
    /\ last.raised = "OSError"

-----------------------------------------------------------------------------
(* Properties of the settings handlers (specification SpecSettings) *)

\* C15: when writing the configuration file fails, save_config ends with an
\* error at its caller, and the save-settings action does not notify that
\* the settings were saved.
C15_SaveFailureSurfaces ==
    (last.op = "save_settings" /\ last.io # "ok") =>
        /\ last.raised # ""
        /\ \A i \in 1..Len(last.notify) : last.notify[i] # NotifySaved

\* the documented defaults
HasDefaults(m) ==
    /\ m.groups = <<>>
    /\ m.order.counts = Dict(<<>>)
    /\ m.smtp_server = ""
    /\ m.smtp_port = 587
    /\ m.username = ""
    /\ m.password = ""
    /\ m.use_tls = TRUE
    /\ m.to_addr = <<>>
    /\ m.subject_template = <<>>
    /\ m.template = <<>>

\* C16: constructing an OrderMailer never raises because of the
\* configuration file; a missing file gives the defaults, and a malformed
\* file of any kind is logged and gives the same defaults.
C16_ConstructionNeverRaises ==
    last.op = "OrderMailer" =>
        /\ last.raised = ""
        /\ pc = "run"
        /\ config_file.kind = "absent" => HasDefaults(mailer)
        /\ config_file.kind \in {"syntax", "shape"} => (HasDefaults(mailer) /\ last.errors = 1)

-----------------------------------------------------------------------------
(* Properties of the place-order handler (specification Spec) *)

\* the history file gained the record of the order as it stood at the call
Recorded ==
    /\ OrderStr(last.preMailer.order).ok
    /\ file.lines = Append(last.preFile.lines, OrderStr(last.preMailer.order).v)

-----------------------------------------------------------------------------
(* Properties of the history under every operation (specification SpecOps) *)

IsPrefix(a, b) == Len(a) <= Len(b) /\ SubSeq(b, 1, Len(a)) = a

\* C18: every step of every operation - construction and load, add_order,
\* place_order, month selection, export, save and reset settings - leaves
\* the file's lines before it a prefix of the lines after it, and
\* OrderManager.orders before it a prefix of the list after it.
C18_HistoryAppendOnly ==
    [][IsPrefix(file.lines, file'.lines) /\ IsPrefix(orders, orders')]_vars

\* place_order appended its record to a file that already held a record,
\* after add_order had extended the in-memory list
C18_Witness ==
    /\ PlacedOrder
    /\ last.raised = ""
    /\ Len(last.preFile.lines) >= 3
    /\ Len(orders) >= 2
    /\ IsPrefix(last.preFile.lines, file.lines)
    /\ Len(file.lines) = Len(last.preFile.lines) + 1

-----------------------------------------------------------------------------
(* Properties of the in-progress order's timestamp and of repeated
   placement (specification Spec) *)

\* C19: an Order constructed without a timestamp carries the time of its
\* own construction: the order the mailer's constructor creates is stamped
\* with the clock at that moment.
C19_DefaultTimestampIsConstructionTime ==
    (last.op = "OrderMailer" /\ last.raised = "") => mailer.order.datetime = last.at

\* the most recent line of the history file at the call is a record of the
\* calendar day of the call
LastEntryToday ==
    /\ last.preFile.lines # <<>>
    /\ LET l == last.preFile.lines[Len(last.preFile.lines)]
       IN /\ l # <<>>
          /\ l[1].k = "date"
          /\ SubSeq(l[1].dt, 1, 3) = SubSeq(last.at, 1, 3)

\* C20: when the most recent history entry is of the current day, a
\* configured mailer's place_order fails with the duplicate-order error
\* before connecting, nothing is sent or written, and the handler shows the
\* 'already ordered today' notification.
C20_DuplicateOrderRejected ==
    (PlacedOrder /\ ~Unconfigured(last.preMailer) /\ LastEntryToday) =>
        /\ last.raised = "DuplicateOrderError"
        /\ last.smtp = <<>>
        /\ last.sent = <<>>
        /\ file = last.preFile
        /\ last.notify = <<NotifyDuplicate>>

-----------------------------------------------------------------------------
(* Round trip of the history format (specification SpecStore) *)

\* C21: after add_order(o) succeeded on a readable file, loading the file
\* returns a list whose last element has o's counts and o's timestamp cut to
\* the minute, whatever the group names are.
C21_HistoryRoundTrip ==
    (last.op = "add_order" /\ last.raised = "" /\ file.readable) =>
        LET ret == LoadOrders(file).ret
        IN /\ ret # <<>>
           /\ ret[Len(ret)].counts = last.arg.counts
           /\ ret[Len(ret)].datetime = SubSeq(last.arg.datetime, 1, 5) \o <<0>>

-----------------------------------------------------------------------------
(* Order of the steps of place_order (specification Spec) *)

\* position of step c in the observed steps, 0 when it was not taken
Pos(c) ==
    IF \E i \in 1..Len(last.steps) : last.steps[i] = c
    THEN CHOOSE i \in 1..Len(last.steps) : last.steps[i] = c
    ELSE 0

\* C23: the SMTP connection is opened only after all five checks passed;
\* STARTTLS is issued exactly when use_tls is set, and before login; login
\* precedes send_message; the history line is written only after
\* send_message returned and the session was closed.
C23_PlaceOrderStepOrder ==
    PlacedOrder =>
        /\ \A c \in {"connect", "starttls", "login", "send_message", "quit", "open", "write"} :
               Occurrences(last.steps, c) <= 1
        /\ Unconfigured(last.preMailer) => last.steps = <<>>
        /\ last.steps # <<>> => last.steps[1] = "connect"
        /\ Pos("starttls") > 0 => last.preMailer.use_tls
        /\ Pos("login") > 0 =>
               /\ last.preMailer.use_tls => (0 < Pos("starttls") /\ Pos("starttls") < Pos("login"))
        /\ Pos("send_message") > 0 => (0 < Pos("login") /\ Pos("login") < Pos("send_message"))
        /\ (Pos("open") > 0 \/ file.lines # last.preFile.lines) =>
               /\ last.stage = "ok"
               /\ 0 < Pos("send_message")
               /\ Pos("send_message") < Pos("quit")
               /\ Pos("quit") < Pos("open")
        /\ file.lines # last.preFile.lines => Pos("open") < Pos("write")

\* a placement with STARTTLS that went through to the written line
C23_Witness ==
    /\ PlacedOrder
    /\ last.raised = ""
    /\ last.steps = <<"connect", "starttls", "login", "send_message", "quit", "open", "write">>
    /\ Len(file.lines) = Len(last.preFile.lines) + 1

-----------------------------------------------------------------------------
(* Reset of the settings (specification SpecSettings) *)

\* C24: reset-settings runs to completion; afterwards the mailer's
\* configuration is the one persisted in the config file (the defaults when
\* there is none), unsaved edits are gone, the in-progress order has a zero
\* count for each configured group, and the history is unchanged.
C24_ResetRestoresPersistedConfig ==
    last.op = "reset_settings" =>
        /\ last.raised = ""
        /\ mailer = MailerNew(load_config(config_file).config, mailer.data_file)
        /\ \A i \in 1..Len(mailer.order.counts.d) : mailer.order.counts.d[i].v = 0
        /\ file = last.preFile
        /\ orders = last.preOrders

-----------------------------------------------------------------------------
(* Non-negative counts (specification SpecStore) *)

\* the counts of o are a dict of non-negative values and its total is >= 0
NonNegative(o) ==
    o.counts.t = "dict" =>
        /\ \A i \in 1..Len(o.counts.d) : o.counts.d[i].v >= 0
        /\ OrderTotal(o).v >= 0

\* C25: in every reachable state the in-progress order and every order in
\* the history have only non-negative counts, so their total_count is >= 0.
C25_CountsNonNegative ==
    /\ NonNegative(mailer.order)
    /\ \A i \in 1..Len(orders) : NonNegative(orders[i])

-----------------------------------------------------------------------------
(* The selection in the history view (specification SpecView) *)

Offered(sel, os) == \E i \in 1..Len(month_options(os)) : month_options(os)[i] = sel

\* C26: under any interleaving of selections among the offered options and
\* of add_order calls, successful or failed, the selected month is one of the
\* month options, so filtered_orders and total_count never fail to parse it.
C26_SelectionIsOffered ==
    /\ Offered(selected_month, orders)
    /\ filtered_orders(orders, selected_month).ok
    /\ (\A i \in 1..Len(orders) : orders[i].counts.t = "dict") =>
           total_count(orders, selected_month).ok

\* a month is selected and add_order has just stored an order of another month
C26_Witness ==
    /\ selected_month # AlleMonate
    /\ last.op = "add_order"
    /\ last.raised = ""
    /\ orders = Append(last.preOrders, last.arg)
    /\ FormatMonth(<<last.arg.datetime[1], last.arg.datetime[2]>>) # selected_month
    /\ filtered_orders(orders, selected_month).v # <<>>

-----------------------------------------------------------------------------
(* The month options and the history (specification SpecStore) *)

\* the options of month_options other than 'Alle Monate'
Months(os) == Tail(month_options(os))

\* each month option selects a non-empty list, and every order is selected
\* by exactly one of them
MonthsCoverOnce(os) ==
    /\ \A i \in 1..Len(Months(os)) :
           /\ filtered_orders(os, Months(os)[i]).ok
           /\ filtered_orders(os, Months(os)[i]).v # <<>>
    /\ \A k \in 1..Len(os) :
           Cardinality({i \in 1..Len(Months(os)) :
                           \E j \in 1..Len(filtered_orders(os, Months(os)[i]).v) :
                               /\ filtered_orders(os, Months(os)[i]).v[j] = os[k]
                               /\ ParseSelection(Months(os)[i]).year = os[k].datetime[1]
                               /\ ParseSelection(Months(os)[i]).month = os[k].datetime[2]}) = 1
    /\ LET Sizes[i \in 0..Len(Months(os))] ==
               IF i = 0 THEN 0 ELSE Sizes[i - 1] + Len(filtered_orders(os, Months(os)[i]).v)
       IN Sizes[Len(Months(os))] = Len(os)

\* total_count for 'Alle Monate' is a number, and it is the sum of the
\* total_count of the month options
TotalsAddUp(os) ==
    LET Sums[i \in 0..Len(Months(os))] ==
            IF i = 0 THEN 0 ELSE Sums[i - 1] + total_count(os, Months(os)[i]).v
    IN /\ total_count(os, AlleMonate).ok
       /\ \A i \in 1..Len(Months(os)) : total_count(os, Months(os)[i]).ok
       /\ total_count(os, AlleMonate).v = Sums[Len(Months(os))]

\* C27: the month options partition the history: each option other than
\* 'Alle Monate' selects a non-empty list, every order is selected by exactly
\* one of them, and the total for 'Alle Monate' is the sum of the totals of
\* the other options.
C27_MonthsPartitionHistory ==
    /\ MonthsCoverOnce(orders)
    /\ TotalsAddUp(orders)

-----------------------------------------------------------------------------
(* What place_order leaves alone (specification Spec) *)

ConfigFields ==
    {"groups", "smtp_server", "smtp_port", "username", "password", "use_tls", "to_addr",
     "subject_template", "template"}

-----------------------------------------------------------------------------
(* The counts of loaded orders (specification SpecStore) *)

\* C29: every order held in memory after load_orders has counts that is a
\* mapping from group name to non-negative integer, whatever the counts
\* field of its line held; lines with another counts field are skipped, so
\* total_count and the rows of the history view never fail on a loaded order.
C29_LoadedCountsAreMappings ==
    last.op \in {"OrderManager", "load_orders"} =>
        /\ \A i \in 1..Len(orders) :
               /\ orders[i].counts.t = "dict"
               /\ \A j \in 1..Len(orders[i].counts.d) : orders[i].counts.d[j].v >= 0
               /\ OrderTotal(orders[i]).ok
        /\ total_count(orders, AlleMonate).ok
        /\ RowsRaised(orders, AlleMonate) = ""

====
